---- MODULE Spec2Model ----
(***************************************************************************)
(* A model of the cascada layout engine: the four node kinds (EmptyLayout, *)
(* BlockLayout, HorizontalLayout, VerticalLayout), the four passes of      *)
(* solve_layout and the findings they record.                              *)
(*                                                                         *)
(* f32 values are modelled as exact rationals <<numerator, denominator>>   *)
(* in lowest terms with a positive denominator, so that the halving of the *)
(* center alignments and the division by the flex total are computed and   *)
(* not assumed; rounding of f32 is not modelled.                           *)
(***************************************************************************)
EXTENDS Integers, Sequences, FiniteSets, TLC

\* ------------------------------------------------------------------------
\* Bounds of the model
\* ------------------------------------------------------------------------

\* Largest number of children given to a multi-child container.
MaxChildren == 2

\* Number of solve_layout calls followed in one behaviour.
MaxSolves == 2

\* Number of scroll calls followed in one behaviour.
MaxScrolls == 1

\* Number of Padding constructor calls followed in one behaviour.
MaxPaddings == 1

\* ------------------------------------------------------------------------
\* f32 arithmetic, as exact rationals
\* ------------------------------------------------------------------------

Abs(i) == IF i < 0 THEN -i ELSE i

RECURSIVE Gcd(_, _)
Gcd(a, b) == IF b = 0 THEN a ELSE Gcd(b, a % b)

\* The rational n/d in lowest terms (d /= 0).
Norm(n, d) ==
    LET g == Gcd(Abs(n), Abs(d))
        s == IF d < 0 THEN -1 ELSE 1
    IN  <<(s * n) \div g, (s * d) \div g>>

\* An integer as f32 (`x as f32`).
R(i) == <<i, 1>>

Zero == R(0)

RAdd(a, b) == Norm(a[1] * b[2] + b[1] * a[2], a[2] * b[2])
RSub(a, b) == Norm(a[1] * b[2] - b[1] * a[2], a[2] * b[2])
RMul(a, b) == Norm(a[1] * b[1], a[2] * b[2])
\* a / b for b /= 0.
RDiv(a, b) == Norm(a[1] * b[2], a[2] * b[1])
RGt(a, b)  == a[1] * b[2] > b[1] * a[2]
RLt(a, b)  == RGt(b, a)
\* f32::max
RMax(a, b) == IF RGt(b, a) THEN b ELSE a
Half(a)    == RDiv(a, R(2))

RECURSIVE SumSeq(_)
SumSeq(s) == IF s = <<>> THEN Zero ELSE RAdd(SumSeq(Tail(s)), Head(s))
\* (exact addition is associative, so the order of the fold does not matter)

\* ------------------------------------------------------------------------
\* Data model
\* ------------------------------------------------------------------------

\* BoxSizing. One record shape for the three variants: `v` is the value of
\* Fixed, `factor` the u8 factor of Flex.
Fixed(v)  == [tag |-> "Fixed",  v |-> v,    factor |-> 0]
Shrink    == [tag |-> "Shrink", v |-> Zero, factor |-> 0]
Flex(f)   == [tag |-> "Flex",   v |-> Zero, factor |-> f]

\* Option<f32> of BoxConstraints::max_width.
None      == [some |-> FALSE, v |-> Zero]
Some(v)   == [some |-> TRUE,  v |-> v]
UnwrapOrDefault(o) == IF o.some THEN o.v ELSE Zero

\* BoxConstraints::new
NewConstraints ==
    [max_width |-> None, max_height |-> Zero, min_height |-> Zero, min_width |-> Zero]

\* Padding::new for sides already known to be non-negative.
Padding(l, r, t, b) == [left |-> R(l), right |-> R(r), top |-> R(t), bottom |-> R(b)]
HorizontalSum(p) == RAdd(p.left, p.right)
VerticalSum(p)   == RAdd(p.bottom, p.top)

\* Padding::new with an assertion that looks at the left side only.
PaddingNewChecksLeftOnly(l, r, t, b) ==
    IF l >= 0 THEN [panicked |-> FALSE, value |-> Padding(l, r, t, b)]
    ELSE [panicked |-> TRUE, value |-> Padding(0, 0, 0, 0)]

\* Padding::new with its assertion: the call panics, or returns the Padding.
PaddingNew(l, r, t, b) ==
    IF l >= 0 /\ r >= 0 /\ t >= 0 /\ b >= 0
    THEN [panicked |-> FALSE, value |-> Padding(l, r, t, b)]
    ELSE [panicked |-> TRUE, value |-> Padding(0, 0, 0, 0)]

PaddingSymmetric(vertical, horizontal) ==
    PaddingNew(horizontal, horizontal, vertical, vertical)

PaddingAll(padding) == PaddingNew(padding, padding, padding, padding)

\* LayoutError. One record shape for the two variants: for OutOfBounds `id`
\* is the parent's id, for Overflow `child_id` is unused (0).
OutOfBounds(parent_id, child_id) ==
    [type |-> "OutOfBounds", id |-> parent_id, child_id |-> child_id, axis |-> "-"]
Overflow(id, axis) ==
    [type |-> "Overflow", id |-> id, child_id |-> 0, axis |-> axis]

\* The fields of the four structs; a kind that lacks a field keeps its
\* default (no children, zero padding, ...).
DefaultNode(kind, id) ==
    [kind |-> kind, id |-> id,
     size |-> [width |-> Zero, height |-> Zero],
     position |-> [x |-> Zero, y |-> Zero],
     spacing |-> 0,
     padding |-> Padding(0, 0, 0, 0),
     scroll_offset |-> Zero,
     intrinsic_size |-> [width |-> Shrink, height |-> Shrink],
     constraints |-> NewConstraints,
     main_axis_alignment |-> "Start",
     cross_axis_alignment |-> "Start",
     children |-> <<>>,
     errors |-> <<>>]

Contains(errs, e) == \E i \in 1..Len(errs) : errs[i] = e

\* The trait's setters, which every kind implements the same way.
SetX(n, x) == [n EXCEPT !.position.x = x]
SetY(n, y) == [n EXCEPT !.position.y = y]
SetMaxWidth(n, w)  == [n EXCEPT !.constraints.max_width = Some(w)]
SetMaxHeight(n, h) == [n EXCEPT !.constraints.max_height = h]
\* constraints.max_width read as f32
MaxWidth(n) == UnwrapOrDefault(n.constraints.max_width)

\* AxisSize with the Fixed arm merged into the Flex arm.
AxisSizeFixedAsFlex(sizing, maxv, minv) ==
    CASE sizing.tag \in {"Flex", "Fixed"} -> maxv
      [] sizing.tag = "Shrink" -> minv

\* The match on BoxSizing of every update_size: Flex takes the max
\* constraint, Shrink the min constraint, Fixed its value.
AxisSize(sizing, maxv, minv) ==
    CASE sizing.tag = "Flex"   -> maxv
      [] sizing.tag = "Shrink" -> minv
      [] sizing.tag = "Fixed"  -> sizing.v

\* Dynamic dispatch over Box<dyn Layout>.
RECURSIVE SolveMinConstraints(_)
RECURSIVE SolveMaxConstraints(_, _)
RECURSIVE UpdateSize(_)
RECURSIVE PositionChildren(_)
RECURSIVE CollectErrors(_)
RECURSIVE DrainErrors(_)

\* ------------------------------------------------------------------------
\* EmptyLayout
\* ------------------------------------------------------------------------

EmptySolveMinConstraints(n) ==
    LET w == IF n.intrinsic_size.width.tag = "Fixed"
             THEN n.intrinsic_size.width.v ELSE n.constraints.min_width
        h == IF n.intrinsic_size.height.tag = "Fixed"
             THEN n.intrinsic_size.height.v ELSE n.constraints.min_height
    IN  [n EXCEPT !.constraints.min_width = w, !.constraints.min_height = h]

EmptySolveMaxConstraints(n, space) == n

EmptyUpdateSize(n) ==
    [n EXCEPT
        !.size.width  = AxisSize(n.intrinsic_size.width,
                                 MaxWidth(n), n.constraints.min_width),
        !.size.height = AxisSize(n.intrinsic_size.height,
                                 n.constraints.max_height, n.constraints.min_height)]

EmptyPositionChildren(n) == n

\* ------------------------------------------------------------------------
\* BlockLayout
\* ------------------------------------------------------------------------

BlockAlignMainAxisStart(n) ==
    [n EXCEPT !.children[1] = SetX(@, RAdd(n.position.x, n.padding.left))]

BlockAlignMainAxisCenter(n) ==
    LET center_start ==
            RAdd(n.position.x, Half(RSub(n.size.width, n.children[1].size.width)))
    IN  [n EXCEPT !.children[1] = SetX(@, center_start)]

BlockAlignMainAxisEnd(n) ==
    LET x_pos == RSub(RAdd(n.position.x, n.size.width), n.padding.right)
    IN  [n EXCEPT !.children[1] = SetX(@, x_pos)]

BlockAlignCrossAxisStart(n) ==
    [n EXCEPT !.children[1] = SetY(@, RAdd(n.position.y, n.padding.top))]

BlockAlignCrossAxisCenter(n) ==
    LET y_pos ==
            RAdd(Half(RSub(n.size.height, n.children[1].size.height)), n.position.y)
    IN  [n EXCEPT !.children[1] = SetY(@, y_pos)]

BlockAlignCrossAxisEnd(n) ==
    [n EXCEPT !.children[1] =
        SetY(@, RSub(RAdd(n.position.y, n.size.height), n.padding.bottom))]

\* solve_min_constraints adding to the stored minimum (`+=`) instead of
\* replacing it.
BlockSolveMinConstraintsAccumulating(n) ==
    LET child == SolveMinConstraints(n.children[1])
        w == IF n.intrinsic_size.width.tag = "Fixed"
             THEN n.intrinsic_size.width.v
             ELSE RAdd(n.constraints.min_width,
                       RAdd(RAdd(n.padding.left, n.padding.right),
                            child.constraints.min_width))
        h == IF n.intrinsic_size.height.tag = "Fixed"
             THEN n.intrinsic_size.height.v
             ELSE RAdd(n.constraints.min_height,
                       RAdd(RAdd(n.padding.top, n.padding.bottom),
                            child.constraints.min_height))
    IN  [n EXCEPT !.children[1] = child,
                  !.constraints.min_width = w,
                  !.constraints.min_height = h]

BlockSolveMinConstraints(n) ==
    LET child == SolveMinConstraints(n.children[1])
        min_width  == child.constraints.min_width
        min_height == child.constraints.min_height
        w == IF n.intrinsic_size.width.tag = "Fixed"
             THEN n.intrinsic_size.width.v
             ELSE RAdd(RAdd(n.padding.left, n.padding.right), min_width)
        h == IF n.intrinsic_size.height.tag = "Fixed"
             THEN n.intrinsic_size.height.v
             ELSE RAdd(RAdd(n.padding.top, n.padding.bottom), min_height)
    IN  [n EXCEPT !.children[1] = child,
                  !.constraints.min_width = w,
                  !.constraints.min_height = h]

BlockSolveMaxConstraints(n, space) ==
    LET available_space ==
            [width  |-> RSub(space.width, HorizontalSum(n.padding)),
             height |-> RSub(space.height, VerticalSum(n.padding))]
        c0 == n.children[1]
        cw == c0.intrinsic_size.width
        ch == c0.intrinsic_size.height
        c1 == CASE cw.tag = "Flex"   -> SetMaxWidth(c0, available_space.width)
                [] cw.tag = "Fixed"  -> SetMaxWidth(c0, cw.v)
                [] cw.tag = "Shrink" -> c0
        c2 == CASE ch.tag = "Flex"   -> SetMaxHeight(c1, available_space.height)
                [] ch.tag = "Fixed"  -> SetMaxHeight(c1, ch.v)
                [] ch.tag = "Shrink" -> c1
    IN  [n EXCEPT !.children[1] = SolveMaxConstraints(c2, available_space)]

BlockUpdateSize(n) ==
    [n EXCEPT
        !.size.width  = AxisSize(n.intrinsic_size.width,
                                 MaxWidth(n), n.constraints.min_width),
        !.size.height = AxisSize(n.intrinsic_size.height,
                                 n.constraints.max_height, n.constraints.min_height),
        !.children[1] = UpdateSize(@)]

\* The bounds test of BlockLayout::position_children.
BlockChildOutOfBounds(n, child) ==
    \/ RGt(child.position.x, RAdd(n.position.x, n.size.width))
    \/ RGt(child.position.y, RAdd(n.position.y, n.size.height))

BlockPositionChildren(n) ==
    LET a == CASE n.main_axis_alignment = "Start"  -> BlockAlignMainAxisStart(n)
               [] n.main_axis_alignment = "Center" -> BlockAlignMainAxisCenter(n)
               [] n.main_axis_alignment = "End"    -> BlockAlignMainAxisEnd(n)
        b == CASE n.cross_axis_alignment = "Start"  -> BlockAlignCrossAxisStart(a)
               [] n.cross_axis_alignment = "Center" -> BlockAlignCrossAxisCenter(a)
               [] n.cross_axis_alignment = "End"    -> BlockAlignCrossAxisEnd(a)
        errs == IF BlockChildOutOfBounds(b, b.children[1])
                THEN Append(b.errors, OutOfBounds(b.id, b.children[1].id))
                ELSE b.errors
    IN  [b EXCEPT !.errors = errs, !.children[1] = PositionChildren(@)]

\* ------------------------------------------------------------------------
\* Helpers shared by the two multi-child containers
\* ------------------------------------------------------------------------

U8 == 256

\* `.sum()` of the u8 factors of the children that are Flex on `axis`
\* ("width" or "height"), as the wrapping build computes it.
RECURSIVE FactorSum(_, _)
FactorSum(children, axis) ==
    IF children = <<>> THEN 0
    ELSE (IF Head(children).intrinsic_size[axis].tag = "Flex"
          THEN Head(children).intrinsic_size[axis].factor ELSE 0)
         + FactorSum(Tail(children), axis)

FlexTotal(children, axis) == FactorSum(children, axis) % U8

\* `for child in children { child.set(pos); pos += child.size + spacing }`
RECURSIVE PlaceForward(_, _, _, _, _)
PlaceForward(children, i, pos, spacing, axis) ==
    IF i > Len(children) THEN children
    ELSE LET c == children[i]
             placed == IF axis = "x" THEN SetX(c, pos) ELSE SetY(c, pos)
             extent == IF axis = "x" THEN c.size.width ELSE c.size.height
         IN  PlaceForward([children EXCEPT ![i] = placed], i + 1,
                          RAdd(pos, RAdd(extent, R(spacing))), spacing, axis)

\* ------------------------------------------------------------------------
\* HorizontalLayout
\* ------------------------------------------------------------------------

\* Runs solve_min_constraints on every child (the mutation done inside
\* compute_children_min_size).
HorizontalSolveChildrenMin(n) ==
    [i \in 1..Len(n.children) |-> SolveMinConstraints(n.children[i])]

RECURSIVE MaxMinHeight(_)
MaxMinHeight(children) ==
    IF children = <<>> THEN Zero
    ELSE RMax(MaxMinHeight(Tail(children)), Head(children).constraints.min_height)

RECURSIVE MaxMinWidth(_)
MaxMinWidth(children) ==
    IF children = <<>> THEN Zero
    ELSE RMax(MaxMinWidth(Tail(children)), Head(children).constraints.min_width)

\* compute_children_min_size leaving the spacing out of the width.
HorizontalComputeChildrenMinSizeNoSpacing(n, solved) ==
    IF solved = <<>> THEN [width |-> Zero, height |-> Zero]
    ELSE LET widths == [i \in 1..Len(solved) |-> solved[i].constraints.min_width]
         IN  [width  |-> RAdd(SumSeq(widths), HorizontalSum(n.padding)),
              height |-> RAdd(MaxMinHeight(solved), VerticalSum(n.padding))]

\* compute_children_min_size over children whose min constraints are solved.
HorizontalComputeChildrenMinSize(n, solved) ==
    IF solved = <<>> THEN [width |-> Zero, height |-> Zero]
    ELSE LET space_between == RMul(R(Len(solved) - 1), R(n.spacing))
             widths == [i \in 1..Len(solved) |-> solved[i].constraints.min_width]
         IN  [width  |-> RAdd(RAdd(space_between, SumSeq(widths)),
                              HorizontalSum(n.padding)),
              height |-> RAdd(MaxMinHeight(solved), VerticalSum(n.padding))]

\* The width of fixed_size_sum (its height is never read).
RECURSIVE HorizontalFixedWidthFrom(_, _)
HorizontalFixedWidthFrom(n, i) ==
    IF i > Len(n.children) THEN Zero
    ELSE LET c == n.children[i]
             own == CASE c.intrinsic_size.width.tag = "Fixed"  -> c.intrinsic_size.width.v
                      [] c.intrinsic_size.width.tag = "Shrink" -> c.constraints.min_width
                      [] OTHER -> Zero
             gap == IF i /= Len(n.children) THEN R(n.spacing) ELSE Zero
         IN  RAdd(RAdd(own, gap), HorizontalFixedWidthFrom(n, i + 1))

HorizontalFixedSizeSum(n) == [width |-> HorizontalFixedWidthFrom(n, 1)]

HorizontalAlignMainAxisStart(n) ==
    [n EXCEPT !.children =
        PlaceForward(@, 1, RAdd(n.position.x, n.padding.left), n.spacing, "x")]

HorizontalAlignMainAxisCenter(n) ==
    IF n.children = <<>> THEN n
    ELSE LET widths == [i \in 1..Len(n.children) |-> n.children[i].size.width]
             space_between == n.spacing * (Len(n.children) - 1)
             width_sum == RAdd(SumSeq(widths), R(space_between))
             center_start == RAdd(n.position.x, Half(RSub(n.size.width, width_sum)))
         IN  [n EXCEPT !.children = PlaceForward(@, 1, center_start, n.spacing, "x")]

\* `for child in children.rev() { x -= child.width; child.set_x(x); x -= spacing }`
RECURSIVE HorizontalPlaceBackward(_, _, _, _)
HorizontalPlaceBackward(children, i, x_pos, spacing) ==
    IF i < 1 THEN children
    ELSE LET x == RSub(x_pos, children[i].size.width)
         IN  HorizontalPlaceBackward([children EXCEPT ![i] = SetX(@, x)], i - 1,
                                     RSub(x, R(spacing)), spacing)

HorizontalAlignMainAxisEnd(n) ==
    LET x_pos == RSub(RAdd(n.position.x, n.size.width), n.padding.right)
    IN  [n EXCEPT !.children = HorizontalPlaceBackward(@, Len(@), x_pos, n.spacing)]

HorizontalAlignCrossAxisStart(n) ==
    LET y == RAdd(n.position.y, n.padding.top)
    IN  [n EXCEPT !.children = [i \in 1..Len(@) |-> SetY(@[i], y)]]

HorizontalAlignCrossAxisCenter(n) ==
    [n EXCEPT !.children = [i \in 1..Len(@) |->
        SetY(@[i], RAdd(Half(RSub(n.size.height, @[i].size.height)), n.position.y))]]

HorizontalAlignCrossAxisEnd(n) ==
    [n EXCEPT !.children = [i \in 1..Len(@) |->
        SetY(@[i], RSub(RAdd(n.position.y, n.size.height), n.padding.bottom))]]

HorizontalSolveMinConstraints(n) ==
    LET solved == HorizontalSolveChildrenMin(n)
        child_constraint_sum == HorizontalComputeChildrenMinSize(n, solved)
        w == IF n.intrinsic_size.width.tag = "Fixed"
             THEN n.intrinsic_size.width.v ELSE child_constraint_sum.width
        h == IF n.intrinsic_size.height.tag = "Fixed"
             THEN n.intrinsic_size.height.v ELSE child_constraint_sum.height
    IN  [n EXCEPT !.children = solved,
                  !.constraints.min_width = w,
                  !.constraints.min_height = h]

\* The main-axis space the Flex children of a HorizontalLayout share.
HorizontalAvailableWidth(n) ==
    IF n.intrinsic_size.width.tag = "Shrink"
    THEN RSub(n.constraints.min_width, HorizontalFixedSizeSum(n).width)
    ELSE RSub(RSub(MaxWidth(n), HorizontalSum(n.padding)),
              HorizontalFixedSizeSum(n).width)

HorizontalAvailableHeight(n) ==
    IF n.intrinsic_size.height.tag = "Shrink"
    THEN n.constraints.min_height
    ELSE RSub(n.constraints.max_height, VerticalSum(n.padding))

\* One iteration of the loop of solve_max_constraints.
HorizontalChildMax(n, c, flex_total, available_width, available_height) ==
    LET cw == c.intrinsic_size.width
        ch == c.intrinsic_size.height
        c1 == CASE cw.tag = "Flex" ->
                     SetMaxWidth(c, RMul(RDiv(R(cw.factor), R(flex_total)),
                                         available_width))
                [] cw.tag = "Fixed"  -> SetMaxWidth(c, cw.v)
                [] cw.tag = "Shrink" -> SetMaxWidth(c, c.constraints.min_width)
        c2 == CASE ch.tag = "Flex"   -> SetMaxHeight(c1, available_height)
                [] ch.tag = "Fixed"  -> SetMaxHeight(c1, ch.v)
                [] ch.tag = "Shrink" -> SetMaxHeight(c1, c1.constraints.min_height)
        space == [width |-> MaxWidth(c2), height |-> c2.constraints.max_height]
    IN  SolveMaxConstraints(c2, space)

HorizontalSolveMaxConstraints(n, space) ==
    LET flex_total == FlexTotal(n.children, "width")
        available_height == HorizontalAvailableHeight(n)
        available_width == HorizontalAvailableWidth(n)
    IN  [n EXCEPT !.children = [i \in 1..Len(@) |->
            HorizontalChildMax(n, @[i], flex_total, available_width, available_height)]]

HorizontalUpdateSize(n) ==
    [n EXCEPT
        !.size.width  = AxisSize(n.intrinsic_size.width,
                                 MaxWidth(n), n.constraints.min_width),
        !.size.height = AxisSize(n.intrinsic_size.height,
                                 n.constraints.max_height, n.constraints.min_height),
        !.children = [i \in 1..Len(@) |-> UpdateSize(@[i])]]

\* The bounds test of HorizontalLayout::position_children.
HorizontalChildOutOfBounds(n, child) ==
    RGt(child.position.x, RAdd(n.position.x, n.size.width))

\* The loop of position_children: the findings it pushes, in child order.
RECURSIVE HorizontalBoundsErrors(_, _)
HorizontalBoundsErrors(n, i) ==
    IF i > Len(n.children) THEN <<>>
    ELSE (IF HorizontalChildOutOfBounds(n, n.children[i])
          THEN <<OutOfBounds(n.id, n.children[i].id)>> ELSE <<>>)
         \o HorizontalBoundsErrors(n, i + 1)

HorizontalPositionChildren(n) ==
    LET a == CASE n.main_axis_alignment = "Start"  -> HorizontalAlignMainAxisStart(n)
               [] n.main_axis_alignment = "Center" -> HorizontalAlignMainAxisCenter(n)
               [] n.main_axis_alignment = "End"    -> HorizontalAlignMainAxisEnd(n)
        b == CASE n.cross_axis_alignment = "Start"  -> HorizontalAlignCrossAxisStart(a)
               [] n.cross_axis_alignment = "Center" -> HorizontalAlignCrossAxisCenter(a)
               [] n.cross_axis_alignment = "End"    -> HorizontalAlignCrossAxisEnd(a)
    IN  [b EXCEPT !.errors = @ \o HorizontalBoundsErrors(b, 1),
                  !.children = [i \in 1..Len(@) |-> PositionChildren(@[i])]]

\* ------------------------------------------------------------------------
\* VerticalLayout
\* ------------------------------------------------------------------------

\* The height of fixed_size_sum (its width is never read).
RECURSIVE VerticalFixedHeightFrom(_, _)
VerticalFixedHeightFrom(n, i) ==
    IF i > Len(n.children) THEN Zero
    ELSE LET c == n.children[i]
             own == CASE c.intrinsic_size.height.tag = "Fixed"  -> c.intrinsic_size.height.v
                      [] c.intrinsic_size.height.tag = "Shrink" -> c.constraints.min_height
                      [] OTHER -> Zero
         IN  RAdd(own, VerticalFixedHeightFrom(n, i + 1))

VerticalFixedSizeSum(n) == [height |-> VerticalFixedHeightFrom(n, 1)]

\* VerticalLayout::scroll
VerticalScrollReplacing(n, offset) == [n EXCEPT !.scroll_offset = offset]

VerticalScroll(n, offset) == [n EXCEPT !.scroll_offset = RAdd(@, offset)]

VerticalAlignMainAxisStart(n) ==
    [n EXCEPT !.children =
        PlaceForward(@, 1, RAdd(n.position.y, n.padding.top), n.spacing, "y")]

\* With no children `self.children.len() as u32 - 1` leaves u32: the checking
\* build aborts there (VerticalCenterAborts); the wrapping build goes on with
\* a height_sum that no child is placed from, and changes nothing.
VerticalAlignMainAxisCenter(n) ==
    IF n.children = <<>> THEN n
    ELSE LET heights == [i \in 1..Len(n.children) |-> n.children[i].size.height]
             height_sum == RAdd(SumSeq(heights),
                                R(n.spacing * (Len(n.children) - 1)))
             center_start == RAdd(n.position.y, Half(RSub(n.size.height, height_sum)))
         IN  [n EXCEPT !.children = PlaceForward(@, 1, center_start, n.spacing, "y")]

\* `for child in children.rev() { child.set_y(y); y -= child.height - spacing }`
RECURSIVE VerticalPlaceBackward(_, _, _, _)
VerticalPlaceBackward(children, i, y, spacing) ==
    IF i < 1 THEN children
    ELSE VerticalPlaceBackward([children EXCEPT ![i] = SetY(@, y)], i - 1,
                               RSub(y, RSub(children[i].size.height, R(spacing))),
                               spacing)

VerticalAlignMainAxisEnd(n) ==
    LET y == RSub(RAdd(n.position.y, n.size.height), n.padding.right)
    IN  [n EXCEPT !.children = VerticalPlaceBackward(@, Len(@), y, n.spacing)]

VerticalAlignCrossAxisStart(n) ==
    LET x == RAdd(n.position.x, n.padding.top)
    IN  [n EXCEPT !.children = [i \in 1..Len(@) |-> SetX(@[i], x)]]

\* align_cross_axis_center leaving the container's own x out.
VerticalAlignCrossAxisCenterAtOrigin(n) ==
    [n EXCEPT !.children = [i \in 1..Len(@) |->
        SetX(@[i], Half(RSub(n.size.width, @[i].size.width)))]]

VerticalAlignCrossAxisCenter(n) ==
    [n EXCEPT !.children = [i \in 1..Len(@) |->
        SetX(@[i], RAdd(Half(RSub(n.size.width, @[i].size.width)), n.position.x))]]

VerticalAlignCrossAxisEnd(n) ==
    [n EXCEPT !.children = [i \in 1..Len(@) |->
        SetX(@[i], RSub(RAdd(n.position.x, n.size.width), n.padding.right))]]

\* Runs solve_min_constraints on every child (the mutation done inside
\* compute_children_min_size; no child is visited when there is none).
VerticalSolveChildrenMin(n) ==
    [i \in 1..Len(n.children) |-> SolveMinConstraints(n.children[i])]

\* compute_children_min_size adding up the widths of the children.
VerticalComputeChildrenMinSizeSummingWidths(n, solved) ==
    LET padded == [width  |-> HorizontalSum(n.padding),
                   height |-> VerticalSum(n.padding)]
    IN  IF solved = <<>> THEN padded
        ELSE LET space_between == RMul(R(Len(solved) - 1), R(n.spacing))
                 widths == [i \in 1..Len(solved) |-> solved[i].constraints.min_width]
                 heights == [i \in 1..Len(solved) |-> solved[i].constraints.min_height]
             IN  [width  |-> RAdd(padded.width, SumSeq(widths)),
                  height |-> RAdd(RAdd(padded.height, space_between), SumSeq(heights))]

\* compute_children_min_size over children whose min constraints are solved.
VerticalComputeChildrenMinSize(n, solved) ==
    LET padded == [width  |-> HorizontalSum(n.padding),
                   height |-> VerticalSum(n.padding)]
    IN  IF solved = <<>> THEN padded
        ELSE LET space_between == RMul(R(Len(solved) - 1), R(n.spacing))
                 heights == [i \in 1..Len(solved) |-> solved[i].constraints.min_height]
             IN  [width  |-> RAdd(padded.width, MaxMinWidth(solved)),
                  height |-> RAdd(RAdd(padded.height, space_between), SumSeq(heights))]

VerticalSolveMinConstraints(n) ==
    LET solved == VerticalSolveChildrenMin(n)
        child_constraint_sum == VerticalComputeChildrenMinSize(n, solved)
        w == IF n.intrinsic_size.width.tag = "Fixed"
             THEN n.intrinsic_size.width.v ELSE child_constraint_sum.width
        h == IF n.intrinsic_size.height.tag = "Fixed"
             THEN n.intrinsic_size.height.v ELSE child_constraint_sum.height
    IN  [n EXCEPT !.children = solved,
                  !.constraints.min_width = w,
                  !.constraints.min_height = h]

\* The main-axis space the Flex children of a VerticalLayout share.
VerticalAvailableHeight(n) ==
    LET base == IF n.intrinsic_size.height.tag = "Shrink"
                THEN RSub(n.constraints.min_height, VerticalFixedSizeSum(n).height)
                ELSE RSub(RSub(n.constraints.max_height, HorizontalSum(n.padding)),
                          VerticalFixedSizeSum(n).height)
    IN  IF n.children = <<>> THEN base
        ELSE RSub(base, RMul(R(Len(n.children) - 1), R(n.spacing)))

VerticalAvailableWidth(n) ==
    IF n.intrinsic_size.width.tag = "Shrink"
    THEN n.constraints.min_width
    ELSE RSub(MaxWidth(n), HorizontalSum(n.padding))

\* One iteration of the loop of solve_max_constraints.
VerticalChildMax(n, c, flex_total, available_width, available_height) ==
    LET cw == c.intrinsic_size.width
        ch == c.intrinsic_size.height
        c1 == CASE cw.tag = "Flex"   -> SetMaxWidth(c, available_width)
                [] cw.tag = "Shrink" -> SetMaxWidth(c, c.constraints.min_width)
                [] cw.tag = "Fixed"  -> SetMaxWidth(c, cw.v)
        c2 == CASE ch.tag = "Flex" ->
                     SetMaxHeight(c1, RMul(RDiv(R(ch.factor), R(flex_total)),
                                           available_height))
                [] ch.tag = "Fixed"  -> SetMaxHeight(c1, ch.v)
                [] ch.tag = "Shrink" -> c1
    IN  SolveMaxConstraints(c2, [width |-> Zero, height |-> Zero])

VerticalSolveMaxConstraints(n, space) ==
    LET flex_total == FlexTotal(n.children, "height")
        available_height == VerticalAvailableHeight(n)
        available_width == VerticalAvailableWidth(n)
    IN  [n EXCEPT !.children = [i \in 1..Len(@) |->
            VerticalChildMax(n, @[i], flex_total, available_width, available_height)]]

\* width_sum and height_sum of update_size, over children whose size is final.
VerticalWidthSum(n) ==
    SumSeq([i \in 1..Len(n.children) |-> n.children[i].size.width])

VerticalHeightSum(n) ==
    LET heights == [i \in 1..Len(n.children) |-> n.children[i].size.height]
        gaps == IF n.children = <<>> THEN Zero
                ELSE RMul(R(Len(n.children) - 1), R(n.spacing))
    IN  RAdd(VerticalSum(n.padding), RAdd(SumSeq(heights), gaps))

VerticalCrossAxisOverflows(n) == RGt(VerticalWidthSum(n), n.size.width)
\* The main-axis test with `>=` for `>`.
VerticalMainAxisOverflowsWhenFull(n) == ~RLt(VerticalHeightSum(n), n.size.height)

VerticalMainAxisOverflows(n)  == RGt(VerticalHeightSum(n), n.size.height)

\* update_size without the tests for duplicates, reporting the main-axis
\* overflow for an excess on either axis.
VerticalUpdateSizeUnguarded(n) ==
    LET sized == [n EXCEPT
            !.size.width  = AxisSize(n.intrinsic_size.width,
                                     MaxWidth(n), n.constraints.min_width),
            !.size.height = AxisSize(n.intrinsic_size.height,
                                     n.constraints.max_height, n.constraints.min_height),
            !.children = [i \in 1..Len(@) |-> UpdateSize(@[i])]]
        main_axis_error  == Overflow(n.id, "MainAxis")
        e1 == IF VerticalCrossAxisOverflows(sized)
              THEN Append(sized.errors, main_axis_error) ELSE sized.errors
        e2 == IF VerticalMainAxisOverflows(sized)
              THEN Append(e1, main_axis_error) ELSE e1
    IN  [sized EXCEPT !.errors = e2]

VerticalUpdateSize(n) ==
    LET sized == [n EXCEPT
            !.size.width  = AxisSize(n.intrinsic_size.width,
                                     MaxWidth(n), n.constraints.min_width),
            !.size.height = AxisSize(n.intrinsic_size.height,
                                     n.constraints.max_height, n.constraints.min_height),
            !.children = [i \in 1..Len(@) |-> UpdateSize(@[i])]]
        main_axis_error  == Overflow(n.id, "MainAxis")
        cross_axis_error == Overflow(n.id, "CrossAxis")
        e1 == IF ~Contains(sized.errors, cross_axis_error) /\ VerticalCrossAxisOverflows(sized)
              THEN Append(sized.errors, cross_axis_error) ELSE sized.errors
        e2 == IF ~Contains(e1, main_axis_error) /\ VerticalMainAxisOverflows(sized)
              THEN Append(e1, main_axis_error) ELSE e1
    IN  [sized EXCEPT !.errors = e2]

\* The bounds test of VerticalLayout::position_children.
VerticalChildOutOfBounds(n, child) ==
    RGt(child.position.y, RAdd(n.position.y, n.size.height))

\* The loop of position_children: the scroll offset is added to every child.
VerticalApplyScroll(n) ==
    [n EXCEPT !.children = [i \in 1..Len(@) |->
        SetY(@[i], RAdd(@[i].position.y, n.scroll_offset))]]

RECURSIVE VerticalBoundsErrors(_, _)
VerticalBoundsErrors(n, i) ==
    IF i > Len(n.children) THEN <<>>
    ELSE (IF VerticalChildOutOfBounds(n, n.children[i])
          THEN <<OutOfBounds(n.id, n.children[i].id)>> ELSE <<>>)
         \o VerticalBoundsErrors(n, i + 1)

VerticalPositionChildren(n) ==
    LET a == CASE n.main_axis_alignment = "Start"  -> VerticalAlignMainAxisStart(n)
               [] n.main_axis_alignment = "Center" -> VerticalAlignMainAxisCenter(n)
               [] n.main_axis_alignment = "End"    -> VerticalAlignMainAxisEnd(n)
        b == CASE n.cross_axis_alignment = "Start"  -> VerticalAlignCrossAxisStart(a)
               [] n.cross_axis_alignment = "Center" -> VerticalAlignCrossAxisCenter(a)
               [] n.cross_axis_alignment = "End"    -> VerticalAlignCrossAxisEnd(a)
        c == VerticalApplyScroll(b)
    IN  [c EXCEPT !.errors = @ \o VerticalBoundsErrors(c, 1),
                  !.children = [i \in 1..Len(@) |-> PositionChildren(@[i])]]

\* The checking build (overflow-checks on) aborts in align_main_axis_center
\* on `len as u32 - 1` when the container has no children.
VerticalCenterAborts(n) ==
    n.main_axis_alignment = "Center" /\ n.children = <<>>

\* ------------------------------------------------------------------------
\* Dynamic dispatch, and the driver
\* ------------------------------------------------------------------------

SolveMinConstraints(n) ==
    CASE n.kind = "Empty"      -> EmptySolveMinConstraints(n)
      [] n.kind = "Block"      -> BlockSolveMinConstraints(n)
      [] n.kind = "Horizontal" -> HorizontalSolveMinConstraints(n)
      [] n.kind = "Vertical"   -> VerticalSolveMinConstraints(n)

SolveMaxConstraints(n, space) ==
    CASE n.kind = "Empty"      -> EmptySolveMaxConstraints(n, space)
      [] n.kind = "Block"      -> BlockSolveMaxConstraints(n, space)
      [] n.kind = "Horizontal" -> HorizontalSolveMaxConstraints(n, space)
      [] n.kind = "Vertical"   -> VerticalSolveMaxConstraints(n, space)

UpdateSize(n) ==
    CASE n.kind = "Empty"      -> EmptyUpdateSize(n)
      [] n.kind = "Block"      -> BlockUpdateSize(n)
      [] n.kind = "Horizontal" -> HorizontalUpdateSize(n)
      [] n.kind = "Vertical"   -> VerticalUpdateSize(n)

PositionChildren(n) ==
    CASE n.kind = "Empty"      -> EmptyPositionChildren(n)
      [] n.kind = "Block"      -> BlockPositionChildren(n)
      [] n.kind = "Horizontal" -> HorizontalPositionChildren(n)
      [] n.kind = "Vertical"   -> VerticalPositionChildren(n)

\* ------------------------------------------------------------------------
\* LayoutIter, iter and get
\* ------------------------------------------------------------------------

\* A `&dyn Layout` into a tree is the path of child indices that leads to it.
RECURSIVE NodeAt(_, _)
NodeAt(n, path) ==
    IF path = <<>> THEN n ELSE NodeAt(n.children[Head(path)], Tail(path))

Reverse(s) == [i \in 1..Len(s) |-> s[Len(s) + 1 - i]]

\* iter(): LayoutIter { stack: vec![self] }; the top of the stack is its end.
LayoutIter(n) == [tree |-> n, stack |-> <<<<>>>>]

\* LayoutIter::next pushing the children in insertion order.
LayoutIterNextUnreversed(it) ==
    IF it.stack = <<>> THEN [item |-> [some |-> FALSE, v |-> <<>>], iter |-> it]
    ELSE LET layout == it.stack[Len(it.stack)]
             children == NodeAt(it.tree, layout).children
             m == [i \in 1..Len(children) |-> Append(layout, i)]
         IN  [item |-> [some |-> TRUE, v |-> layout],
              iter |-> [it EXCEPT !.stack = SubSeq(@, 1, Len(@) - 1) \o m]]

\* LayoutIter::next: the item returned and the iterator it leaves.
LayoutIterNext(it) ==
    IF it.stack = <<>> THEN [item |-> [some |-> FALSE, v |-> <<>>], iter |-> it]
    ELSE LET layout == it.stack[Len(it.stack)]
             children == NodeAt(it.tree, layout).children
             m == [i \in 1..Len(children) |-> Append(layout, i)]
         IN  [item |-> [some |-> TRUE, v |-> layout],
              iter |-> [it EXCEPT !.stack = SubSeq(@, 1, Len(@) - 1) \o Reverse(m)]]

\* next called until it returns None: the items yielded, and the iterator
\* that is left.
RECURSIVE Drain(_)
Drain(it) ==
    LET r == LayoutIterNext(it)
    IN  IF r.item.some
        THEN LET d == Drain(r.iter)
             IN  [items |-> <<r.item.v>> \o d.items, iter |-> d.iter]
        ELSE [items |-> <<>>, iter |-> r.iter]

\* Iterator::find keeping on after a match: the last item that matches.
RECURSIVE FindLast(_, _)
FindLast(it, id) ==
    LET r == LayoutIterNext(it)
    IN  IF ~r.item.some THEN r.item
        ELSE LET later == FindLast(r.iter, id)
             IN  IF later.some \/ NodeAt(it.tree, r.item.v).id /= id
                 THEN later ELSE r.item

\* Iterator::find(|layout| layout.id() == id): next is called until an item
\* matches.
RECURSIVE Find(_, _)
Find(it, id) ==
    LET r == LayoutIterNext(it)
    IN  IF ~r.item.some THEN r.item
        ELSE IF NodeAt(it.tree, r.item.v).id = id THEN r.item
        ELSE Find(r.iter, id)

Get(n, id) == Find(LayoutIter(n), id)

RECURSIVE Concat(_)
Concat(ss) == IF ss = <<>> THEN <<>> ELSE Head(ss) \o Concat(Tail(ss))

\* collect_errors chaining the children's findings before the node's own.
CollectErrorsChildrenFirst(n) ==
    Concat([i \in 1..Len(n.children) |-> CollectErrors(n.children[i])]) \o n.errors

\* collect_errors, the list it returns: the node's own findings, then those
\* of each child's subtree in order.
CollectErrors(n) ==
    n.errors \o Concat([i \in 1..Len(n.children) |-> CollectErrors(n.children[i])])

\* collect_errors, what it leaves behind: every list of the subtree drained.
DrainErrors(n) ==
    [n EXCEPT !.errors = <<>>,
              !.children = [i \in 1..Len(@) |-> DrainErrors(@[i])]]

\* solve_layout seeding the root's max width from the window whatever the
\* root carries.
SolvePassesAlwaysSeeding(root, window_size) ==
    LET r1 == SetMaxHeight(SetMaxWidth(root, window_size.width), window_size.height)
    IN  PositionChildren(UpdateSize(
            SolveMaxConstraints(SolveMinConstraints(r1), window_size)))

\* solve_layout up to and including position_children.
SolvePasses(root, window_size) ==
    LET r0 == IF ~root.constraints.max_width.some
              THEN SetMaxWidth(root, window_size.width) ELSE root
        r1 == SetMaxHeight(r0, window_size.height)
        r2 == SolveMinConstraints(r1)
        r3 == SolveMaxConstraints(r2, window_size)
        r4 == UpdateSize(r3)
    IN  PositionChildren(r4)

\* The method calls of one pass over the subtree of n, in the order they are
\* entered, as (pass, node) pairs: in every kind the method of a pass calls
\* the same method, and no other pass, on each child in insertion order.
RECURSIVE PassCalls(_, _, _)

\* A max pass that also updates the size of each child it has constrained.
PassCallsSizingEarly(pass, n, path) ==
    <<[pass |-> pass, node |-> path]>> \o
    Concat([i \in 1..Len(n.children) |->
        PassCalls(pass, n.children[i], Append(path, i)) \o
        (IF pass = "max" THEN PassCalls("size", n.children[i], Append(path, i))
         ELSE <<>>)])

PassCalls(pass, n, path) ==
    <<[pass |-> pass, node |-> path]>> \o
    Concat([i \in 1..Len(n.children) |->
        PassCalls(pass, n.children[i], Append(path, i))])

\* The method calls of one solve_layout, in order.
SolveLayoutCalls(root) ==
    PassCalls("min", root, <<>>) \o PassCalls("max", root, <<>>) \o
    PassCalls("size", root, <<>>) \o PassCalls("position", root, <<>>) \o
    PassCalls("collect", root, <<>>)

\* The checking build (overflow-checks on) aborts in solve_max_constraints
\* when the u8 `.sum()` of the factors leaves u8.
FlexTotalAborts(n) ==
    \/ n.kind = "Horizontal" /\ FactorSum(n.children, "width") >= U8
    \/ n.kind = "Vertical" /\ FactorSum(n.children, "height") >= U8

\* Whether the checking build aborts somewhere in the tree during a solve.
RECURSIVE SolveAborts(_)
SolveAborts(n) ==
    \/ n.kind = "Vertical" /\ VerticalCenterAborts(n)
    \/ FlexTotalAborts(n)
    \/ \E i \in 1..Len(n.children) : SolveAborts(n.children[i])

\* ------------------------------------------------------------------------
\* Trees the caller builds
\* ------------------------------------------------------------------------

\* EmptyLayout::new().intrinsic_size(..)
Leaf(id, w, h) ==
    [DefaultNode("Empty", id) EXCEPT !.intrinsic_size = [width |-> w, height |-> h]]

\* BlockLayout::new(child) / HorizontalLayout::new() / VerticalLayout::new()
\* followed by the builder calls.
Container(kind, id, w, h, padding, spacing, main, cross, children) ==
    [DefaultNode(kind, id) EXCEPT
        !.intrinsic_size = [width |-> w, height |-> h],
        !.padding = padding,
        !.spacing = spacing,
        !.main_axis_alignment = main,
        !.cross_axis_alignment = cross,
        !.children = children]

SetPosition(n, p) == [n EXCEPT !.position = p]

\* The available sizes handed to solve_layout.
Windows ==
    {[width |-> R(24), height |-> R(20)], [width |-> R(12), height |-> R(8)]}

\* The offsets handed to scroll.
ScrollOffsets == {R(3)}

Sizings == {Fixed(R(6)), Shrink, Flex(1)}
\* The sizings of a nested container: its Fixed value exceeds every window.
InnerSizings == {Fixed(R(30)), Shrink, Flex(1)}
\* (width, height) pairs of a container's IntrinsicSize.
SizingPairs ==
    {<<Shrink, Shrink>>, <<Flex(1), Flex(1)>>, <<Fixed(R(6)), Fixed(R(6))>>,
     <<Flex(1), Shrink>>, <<Shrink, Fixed(R(6))>>}
Paddings == {Padding(0, 0, 0, 0), Padding(1, 2, 3, 4)}
Spacings == {0, 2}
Alignments == {"Start", "Center", "End"}
MultiKinds == {"Horizontal", "Vertical"}
ContainerKinds == {"Block", "Horizontal", "Vertical"}
Origin == [x |-> Zero, y |-> Zero]
RootPositions == {Origin, [x |-> R(5), y |-> R(7)]}

SmallLeaf(id) == Leaf(id, Fixed(R(4)), Fixed(R(3)))
BigLeaf(id)   == Leaf(id, Fixed(R(10)), Fixed(R(10)))
FlexLeaf(id, f) == Leaf(id, Flex(f), Flex(f))

\* Leaves given as children, by the id they get.
FixedLeaves(id) == {SmallLeaf(id), BigLeaf(id)}

FlexLeaves(id) == {FlexLeaf(id, 1), FlexLeaf(id, 3)}

ChildLeaves(id) == FixedLeaves(id) \cup FlexLeaves(id)

\* Rows of MaxChildren leaves, the i-th with id base + i: small fixed leaves,
\* flex leaves of unequal factors, and the two kinds alternating.
ChildPatterns(base) ==
    {[i \in 1..MaxChildren |-> SmallLeaf(base + i)],
     [i \in 1..MaxChildren |-> FlexLeaf(base + i, IF i = 1 THEN 1 ELSE 3)],
     [i \in 1..MaxChildren |->
         IF i % 2 = 1 THEN SmallLeaf(base + i) ELSE FlexLeaf(base + i, 1)]}

FixedPatterns(base) ==
    {[i \in 1..MaxChildren |-> SmallLeaf(base + i)],
     [i \in 1..MaxChildren |->
         IF i % 2 = 1 THEN BigLeaf(base + i) ELSE SmallLeaf(base + i)]}

\* The lists of at most MaxChildren leaves that begin one of the rows.
ChildLists(patterns) ==
    {SubSeq(row, 1, len) : row \in patterns, len \in 0..MaxChildren}

\* A root that is a leaf.
LeafRoots == {Leaf(1, w, h) : w \in Sizings, h \in Sizings}

\* A BlockLayout around one leaf.
BlockRoots ==
    {Container("Block", 1, s[1], s[2], p, 0, a, a, <<c>>) :
        s \in SizingPairs, p \in Paddings, a \in Alignments, c \in ChildLeaves(2)}

\* A multi-child container of leaves.
MultiRoots ==
    {Container(k, 1, s[1], s[2], p, sp, a, a, cs) :
        k \in MultiKinds, s \in SizingPairs, p \in Paddings,
        sp \in Spacings, a \in Alignments, cs \in ChildLists(ChildPatterns(1))}

\* The children of a container of kind k around the node c: a BlockLayout
\* holds c alone, a multi-child container holds c and a fixed leaf after it.
Around(k, c, id) ==
    IF k = "Block" THEN <<c>> ELSE <<c, SmallLeaf(id)>>

\* A container in a container: the inner one holds leaves.
NestedRoots ==
    {Container(k1, 1, s1, s1, p1, IF k1 = "Block" THEN 0 ELSE 2, "Start", "Start",
        Around(k1, Container(k2, 2, s2, s2, Padding(1, 2, 3, 4), 0,
                             "Start", "Start", Around(k2, g, 5)), 3)) :
        k1 \in ContainerKinds, s1 \in Sizings, p1 \in Paddings,
        k2 \in ContainerKinds, s2 \in InnerSizings, g \in ChildLeaves(4)}

\* A container of fixed leaves under every pair of alignments, at the origin
\* or moved by set_position.
AlignChildren(k) ==
    IF k = "Block" THEN {<<c>> : c \in FixedLeaves(2)} ELSE ChildLists(FixedPatterns(1))

AlignRoots ==
    UNION {{SetPosition(Container(k, 1, s[1], s[2], p, IF k = "Block" THEN 0 ELSE 2,
                                  m, c, cs), pos) :
                s \in {<<Flex(1), Flex(1)>>, <<Fixed(R(6)), Fixed(R(6))>>},
                p \in Paddings, m \in Alignments, c \in Alignments,
                pos \in RootPositions, cs \in AlignChildren(k)} :
           k \in ContainerKinds}

\* Columns a caller scrolls: a fixed or filling column of fixed leaves.
ScrollRoots ==
    {Container("Vertical", 1, s[1], s[2], p, 2, m, c, cs) :
        s \in {<<Flex(1), Flex(1)>>, <<Fixed(R(6)), Fixed(R(6))>>},
        p \in Paddings, m \in Alignments, c \in {"Start", "Center"},
        cs \in ChildLists(FixedPatterns(1))}

\* ------------------------------------------------------------------------
\* The state machine: a caller that owns one tree
\* ------------------------------------------------------------------------

VARIABLES
    root,       \* the tree the caller owns
    returned,   \* the Vec<LayoutError> returned by the last solve_layout
    status,     \* "built", "solved", or "aborted" (the process panicked)
    calls,      \* the calls made so far, oldest first
    previous,   \* the tree as it was before the last call
    walked      \* the last iter or get call, and what it returned

vars == <<root, returned, status, calls, previous, walked>>

NumCalls(op) == Cardinality({i \in 1..Len(calls) : calls[i].op = op})

InitWith(trees) ==
    /\ root \in trees
    /\ returned = <<>>
    /\ status = "built"
    /\ calls = <<>>
    /\ previous = root
    /\ walked = [op |-> "none"]

Init == InitWith(LeafRoots \cup BlockRoots \cup MultiRoots \cup NestedRoots)

\* solve_layout(&mut root, window_size) running to completion.
SolveLayout(window_size) ==
    /\ status /= "aborted"
    /\ NumCalls("solve") < MaxSolves
    /\ LET positioned == SolvePasses(root, window_size)
       IN  /\ returned' = CollectErrors(positioned)
           /\ root' = DrainErrors(positioned)
    /\ status' = "solved"
    /\ calls' = Append(calls, [op |-> "solve", arg |-> window_size])
    /\ previous' = root
    /\ UNCHANGED walked

\* solve_layout in a build with overflow checks, on a tree that makes one of
\* its integer operations leave its type: the call panics.
SolveLayoutAborts(window_size) ==
    /\ status /= "aborted"
    /\ NumCalls("solve") < MaxSolves
    /\ SolveAborts(root)
    /\ status' = "aborted"
    /\ calls' = Append(calls, [op |-> "solve", arg |-> window_size])
    /\ UNCHANGED <<root, returned, previous, walked>>

\* root.scroll(offset), for a root that is a VerticalLayout.
ScrollWithin(offset, limit) ==
    /\ status /= "aborted"
    /\ root.kind = "Vertical"
    /\ NumCalls("scroll") < limit
    /\ root' = VerticalScroll(root, offset)
    /\ calls' = Append(calls, [op |-> "scroll", arg |-> offset])
    /\ previous' = root
    /\ UNCHANGED <<returned, status, walked>>

Scroll(offset) == ScrollWithin(offset, MaxScrolls)

Next ==
    \/ \E s \in Windows : SolveLayout(s)
    \/ \E s \in Windows : SolveLayoutAborts(s)
    \/ \E d \in ScrollOffsets : Scroll(d)

Spec == Init /\ [][Next]_vars

\* The same caller, with trees that vary the alignments.
InitAlign == InitWith(AlignRoots)
SpecAlign == InitAlign /\ [][Next]_vars

\* The i-th child of a root whose descendants all record findings: a column
\* too small for its leaf, or a block or a row whose padding pushes the leaf
\* past its far edge.
CrampedChild(k, i) ==
    Container(k, 10 * i, Fixed(R(2)), Fixed(R(2)),
              IF k = "Vertical" THEN Padding(0, 0, 0, 0) ELSE Padding(3, 0, 3, 0),
              0, "Start", "Start", <<SmallLeaf(10 * i + 1)>>)

RECURSIVE CrampedLists(_)
CrampedLists(len) ==
    IF len = 0 THEN {<<>>}
    ELSE {Append(l, CrampedChild(k, len)) : l \in CrampedLists(len - 1),
                                            k \in ContainerKinds}

\* A row or a column of such children, itself too small for two of them.
FindingRoots ==
    {Container(k, 1, Fixed(R(3)), Fixed(R(3)), Padding(2, 0, 2, 0), 0, a, "Start", cs) :
        k \in MultiKinds, a \in {"Start", "Center"},
        cs \in UNION {CrampedLists(len) : len \in 0..MaxChildren}}

InitFindings == InitWith(FindingRoots)
SpecFindings == InitFindings /\ [][Next]_vars

\* The builder max_width(m): the node carries the max width m from its
\* construction on.
WithMaxWidth(n, m) == SetMaxWidth(n, m)

\* A node built with one of the max widths (below and above the windows), or
\* with none.
MaxWidthChoices(n) == {n, WithMaxWidth(n, R(10)), WithMaxWidth(n, R(30))}

\* Roots that fill the width, built with or without a max width: leaves,
\* BlockLayouts around a leaf that fills the width and is itself built with or
\* without one, rows and columns.
MaxWidthRoots ==
    UNION {MaxWidthChoices(r) :
        r \in {Leaf(1, Flex(1), h) : h \in {Flex(1), Shrink}}
           \cup {Container("Block", 1, Flex(1), Flex(1), p, 0, "Start", "Start", <<c>>) :
                    p \in Paddings, c \in MaxWidthChoices(FlexLeaf(2, 1))}
           \cup {Container(k, 1, Flex(1), Flex(1), p, 0, a, "Start", cs) :
                    k \in MultiKinds, p \in Paddings, a \in {"Start", "Center"},
                    cs \in ChildLists(ChildPatterns(1))}}

InitMaxWidth == InitWith(MaxWidthRoots)
SpecMaxWidth == InitMaxWidth /\ [][Next]_vars

\* A caller that scrolls a column once more than the others do.
InitScroll == InitWith(ScrollRoots)
NextScroll ==
    \/ \E s \in Windows : SolveLayout(s)
    \/ \E s \in Windows : SolveLayoutAborts(s)
    \/ \E d \in ScrollOffsets : ScrollWithin(d, MaxScrolls + 1)
SpecScroll == InitScroll /\ [][NextScroll]_vars

\* Containers built without padding, to be given one by a constructor call.
PaddingRoots ==
    {Container(k, 1, Flex(1), Flex(1), Padding(0, 0, 0, 0), 0, a, "Start",
               IF k = "Block" \/ a = "Start" THEN <<SmallLeaf(2)>> ELSE <<>>) :
        k \in ContainerKinds, a \in {"Start", "Center"}}

\* The arguments handed to the three constructors.
PaddingCalls ==
    {[ctor |-> "new", args |-> <<l, r, t, b>>] :
        l \in {-1, 3}, r \in {-1, 3}, t \in {-1, 3}, b \in {-1, 3}}
    \cup {[ctor |-> "symmetric", args |-> <<v, h>>] : v \in {-1, 0, 3}, h \in {-1, 0, 3}}
    \cup {[ctor |-> "all", args |-> <<x>>] : x \in {-1, 0, 3}}

\* The sides a constructor call hands to Padding::new: left, right, top,
\* bottom.
GivenSides(c) ==
    CASE c.ctor = "new"       -> c.args
      [] c.ctor = "symmetric" -> <<c.args[2], c.args[2], c.args[1], c.args[1]>>
      [] c.ctor = "all"       -> <<c.args[1], c.args[1], c.args[1], c.args[1]>>

Construct(c) ==
    CASE c.ctor = "new"       -> PaddingNew(c.args[1], c.args[2], c.args[3], c.args[4])
      [] c.ctor = "symmetric" -> PaddingSymmetric(c.args[1], c.args[2])
      [] c.ctor = "all"       -> PaddingAll(c.args[1])

\* root.padding(Padding::new(..)) (or symmetric, or all) while the tree is
\* being built: the constructor panics, or the builder stores its result.
BuildPadding(c) ==
    /\ status = "built"
    /\ NumCalls("padding") = Len(calls)
    /\ NumCalls("padding") < MaxPaddings
    /\ LET made == Construct(c)
       IN  /\ status' = IF made.panicked THEN "aborted" ELSE status
           /\ root' = IF made.panicked THEN root ELSE [root EXCEPT !.padding = made.value]
    /\ calls' = Append(calls, [op |-> "padding", arg |-> c])
    /\ previous' = root
    /\ UNCHANGED <<returned, walked>>

\* A caller that builds the padding of its tree, then uses the tree.
InitPadding == InitWith(PaddingRoots)
NextPadding ==
    \/ \E c \in PaddingCalls : BuildPadding(c)
    \/ Next
SpecPadding == InitPadding /\ [][NextPadding]_vars

\* Children with a subtree of their own, and ids that occur more than once
\* (a clone keeps the id, set_id gives any id): rows of leaves of one id; a
\* row around two leaves followed by a leaf with the id of the first of them;
\* a leaf followed by a block around a column whose last leaf has the root's
\* id.
Inner(kind, id, children) ==
    Container(kind, id, Shrink, Shrink, Padding(0, 0, 0, 0), 0, "Start", "Start", children)

SameIdRow == [i \in 1..MaxChildren |-> SmallLeaf(2)]

NestedRow ==
    [i \in 1..MaxChildren |->
        IF i % 2 = 1 THEN Inner("Horizontal", 2, <<SmallLeaf(3), SmallLeaf(4)>>)
        ELSE SmallLeaf(3)]

DeepRow ==
    [i \in 1..MaxChildren |->
        IF i % 2 = 1 THEN SmallLeaf(4)
        ELSE Inner("Block", 3, <<Inner("Vertical", 4, <<SmallLeaf(3), SmallLeaf(1)>>)>>)]

\* A row that begins any of these, or a centred column that begins the last.
WalkRoots ==
    {Container("Horizontal", 1, Flex(1), Flex(1), Padding(0, 0, 0, 0), 0,
               "Start", "Start", cs) : cs \in ChildLists({SameIdRow, NestedRow, DeepRow})}
    \cup
    {Container("Vertical", 1, Flex(1), Flex(1), Padding(0, 0, 0, 0), 0,
               "Center", "Start", cs) : cs \in ChildLists({DeepRow})}

\* The ids looked for: those in the trees, and one that is in none.
WalkIds == 1..5

\* The nodes iter and get are called on: the root and its children.
Receivers == {<<>>} \cup {<<i>> : i \in 1..Len(root.children)}

\* receiver.iter() driven until it returns None, and once more.
Iterate(receiver) ==
    /\ status /= "aborted"
    /\ LET d == Drain(LayoutIter(NodeAt(root, receiver)))
       IN  walked' = [op |-> "iter", receiver |-> receiver,
                      items |-> d.items, then |-> LayoutIterNext(d.iter).item]
    /\ UNCHANGED <<root, returned, status, calls, previous>>

\* receiver.get(id)
GetById(receiver, id) ==
    /\ status /= "aborted"
    /\ walked' = [op |-> "get", receiver |-> receiver, id |-> id,
                  found |-> Get(NodeAt(root, receiver), id)]
    /\ UNCHANGED <<root, returned, status, calls, previous>>

\* A caller that also walks its tree, before and after solving it.
InitWalk == InitWith(WalkRoots)
NextWalk ==
    \/ \E receiver \in Receivers : Iterate(receiver)
    \/ \E receiver \in Receivers, id \in WalkIds : GetById(receiver, id)
    \/ Next
SpecWalk == InitWalk /\ [][NextWalk]_vars

\* Flex factors from the whole range of u8, whose sums pass 255.
BigFactors == {3, 100, 200, 255}

\* Rows and columns that fill the window, of leaves that are Flex with such
\* factors on both axes.
FactorRoots ==
    {Container(k, 1, Flex(1), Flex(1), Padding(0, 0, 0, 0), 0, "Start", "Start",
               [i \in 1..len |-> FlexLeaf(1 + i, fs[i])]) :
        k \in MultiKinds, len \in 1..MaxChildren,
        fs \in [1..MaxChildren -> BigFactors]}

InitFactors == InitWith(FactorRoots)
SpecFactors == InitFactors /\ [][Next]_vars

\* ------------------------------------------------------------------------
\* Properties
\* ------------------------------------------------------------------------

\* Every node of the subtree of n, n included.
RECURSIVE Subtree(_)
Subtree(n) == {n} \cup UNION {Subtree(n.children[i]) : i \in 1..Len(n.children)}

Solved == status = "solved"

\* A node keeps, on each axis whose sizing is Fixed(v), the final size v.
FixedSizeKept(n) ==
    /\ n.intrinsic_size.width.tag = "Fixed"  => n.size.width = n.intrinsic_size.width.v
    /\ n.intrinsic_size.height.tag = "Fixed" => n.size.height = n.intrinsic_size.height.v

\* C1: after solve_layout, every node of the tree, of any kind and at any
\* depth, has on each axis whose sizing is Fixed(v) the final size v, whatever
\* the available size and the sizes of its parent and children.
C1_FixedSizeIsFinal ==
    Solved => \A n \in Subtree(root) : FixedSizeKept(n)

\* C1 witness: a solved tree whose root is a container narrower than one of
\* its children, a container that is Fixed on both axes and kept its size.
C1_Witness ==
    /\ Solved
    /\ \E i \in 1..Len(root.children) :
          LET c == root.children[i]
          IN  /\ c.kind /= "Empty"
              /\ c.intrinsic_size.width.tag = "Fixed"
              /\ c.intrinsic_size.height.tag = "Fixed"
              /\ RGt(c.size.width, root.size.width)
              /\ FixedSizeKept(c)

\* Main and cross axis of a multi-child container.
MainSizing(n)  == IF n.kind = "Horizontal" THEN n.intrinsic_size.width
                  ELSE n.intrinsic_size.height
MainSize(n, c) == IF n.kind = "Horizontal" THEN c.size.width ELSE c.size.height
MainMin(n, c)  == IF n.kind = "Horizontal" THEN c.constraints.min_width
                  ELSE c.constraints.min_height
MainMax(n, c)  == IF n.kind = "Horizontal" THEN MaxWidth(c)
                  ELSE c.constraints.max_height
MainPadding(n) == IF n.kind = "Horizontal" THEN HorizontalSum(n.padding)
                  ELSE VerticalSum(n.padding)
ChildMainSizing(n, c) == IF n.kind = "Horizontal" THEN c.intrinsic_size.width
                         ELSE c.intrinsic_size.height

\* spacing * (count - 1), the gaps between consecutive children (none when
\* there is no child).
Gaps(n) == IF n.children = <<>> THEN Zero
           ELSE RMul(R(n.spacing), R(Len(n.children) - 1))

\* The true sum of the Flex factors of the children on the main axis.
TrueFlexTotal(n) ==
    FactorSum(n.children, IF n.kind = "Horizontal" THEN "width" ELSE "height")

\* The space that Fixed and Shrink children take on the main axis.
FixedConsumption(n) ==
    SumSeq([i \in 1..Len(n.children) |->
        LET c == n.children[i]
            sz == ChildMainSizing(n, c)
        IN  CASE sz.tag = "Fixed"  -> sz.v
              [] sz.tag = "Shrink" -> MainMin(n, c)
              [] sz.tag = "Flex"   -> Zero])

\* The available main-axis space of a container, as specified: its max
\* (its min when it is Shrink) minus its padding on that axis, the gaps and
\* the Fixed and Shrink children.
SpecifiedAvailable(n) ==
    LET own == IF MainSizing(n).tag = "Shrink" THEN MainMin(n, n) ELSE MainMax(n, n)
    IN  RSub(RSub(RSub(own, MainPadding(n)), Gaps(n)), FixedConsumption(n))

\* C2: in a multi-child container, after solve_layout, every child that is
\* Flex(f) on the main axis has main-axis size f / (sum of the Flex factors of
\* the children) times the container's available main-axis space.
C2_FlexShare ==
    Solved =>
        \A n \in Subtree(root) :
            n.kind \in MultiKinds =>
                \A i \in 1..Len(n.children) :
                    LET c == n.children[i]
                        sz == ChildMainSizing(n, c)
                    IN  sz.tag = "Flex" =>
                            MainSize(n, c) =
                                RMul(RDiv(R(sz.factor), R(TrueFlexTotal(n))),
                                     SpecifiedAvailable(n))

\* The sequence of one measure of the children of n.
ChildValues(n, F(_)) == [i \in 1..Len(n.children) |-> F(n.children[i])]

\* The largest element of a sequence of non-negative sizes (0 when empty).
RECURSIVE MaxSeq(_)
MaxSeq(s) == IF s = <<>> THEN Zero ELSE RMax(s[1], MaxSeq(Tail(s)))

FinalWidth(c)  == c.size.width
FinalHeight(c) == c.size.height
MinWidth(c)    == c.constraints.min_width
MinHeight(c)   == c.constraints.min_height

\* The content width of a container measured with Wd, a measure of a
\* child's width: padding plus the child for a BlockLayout, padding plus the
\* children and the gaps along a row, padding plus the widest child across a
\* column.
ContentWidth(n, Wd(_)) ==
    RAdd(HorizontalSum(n.padding),
         IF n.kind = "Horizontal"
         THEN RAdd(SumSeq(ChildValues(n, Wd)), Gaps(n))
         ELSE MaxSeq(ChildValues(n, Wd)))

ContentHeight(n, Ht(_)) ==
    RAdd(VerticalSum(n.padding),
         IF n.kind = "Vertical"
         THEN RAdd(SumSeq(ChildValues(n, Ht)), Gaps(n))
         ELSE MaxSeq(ChildValues(n, Ht)))

\* The containers of the tree that hold at least one child.
Holders == {n \in Subtree(root) : n.kind \in ContainerKinds /\ n.children # <<>>}

\* C3 (as stated): after solve_layout a container that is Shrink on an axis
\* has, on that axis, the size of its content computed from its children's
\* final sizes.
C3_ShrinkFitsFinalSizes ==
    Solved =>
        \A n \in Holders :
            /\ n.intrinsic_size.width.tag = "Shrink" =>
                   n.size.width = ContentWidth(n, FinalWidth)
            /\ n.intrinsic_size.height.tag = "Shrink" =>
                   n.size.height = ContentHeight(n, FinalHeight)

\* C3 (amended): after solve_layout a container that is Shrink on an axis
\* and holds at least one child has, on that axis, the size of its content
\* computed from its children's minimum constraints.
C3_ShrinkFitsMinimums ==
    Solved =>
        \A n \in Holders :
            /\ n.intrinsic_size.width.tag = "Shrink" =>
                   n.size.width = ContentWidth(n, MinWidth)
            /\ n.intrinsic_size.height.tag = "Shrink" =>
                   n.size.height = ContentHeight(n, MinHeight)

\* A Shrink container three levels deep has been solved around content that
\* is not empty, and one around a Flex child.
C3_Witness ==
    /\ Solved
    /\ \E n \in Holders, m \in Holders :
           /\ n.intrinsic_size.width.tag = "Shrink"
           /\ n.intrinsic_size.height.tag = "Shrink"
           /\ m.intrinsic_size.width.tag = "Shrink"
           /\ \E i \in 1..Len(n.children) : n.children[i] = m
           /\ RGt(m.size.width, HorizontalSum(m.padding))
           /\ RGt(n.size.width, m.size.width)
    /\ \E n \in Holders :
           /\ n.intrinsic_size.width.tag = "Shrink"
           /\ \E i \in 1..Len(n.children) :
                  /\ n.children[i].intrinsic_size.width.tag = "Flex"
                  /\ RGt(n.children[i].size.width, Zero)

\* The last call made was a solve_layout that ran to completion.
JustSolved == Solved /\ calls[Len(calls)].op = "solve"

\* The sizes and positions of a tree.
RECURSIVE Geometry(_)
Geometry(n) ==
    [size |-> n.size, position |-> n.position,
     children |-> [i \in 1..Len(n.children) |-> Geometry(n.children[i])]]

\* The last two calls were solve_layout with the same available size.
SolvedTwice ==
    /\ JustSolved
    /\ Len(calls) >= 2
    /\ calls[Len(calls) - 1] = calls[Len(calls)]

\* C4: solve_layout run a second time with the same available size on a tree
\* that was not changed in between leaves every size and every position as
\* the first run left them, a vertical container with a non-zero scroll
\* offset included.
C4_SolveIsIdempotent == SolvedTwice => Geometry(root) = Geometry(previous)

\* A vertical container with children and a scroll offset that is not zero
\* was solved twice.
C4_Witness ==
    /\ SolvedTwice
    /\ root.kind = "Vertical"
    /\ root.scroll_offset # Zero
    /\ Len(root.children) = MaxChildren
    /\ root.children[1].position.y # Zero

\* The vertical containers of the tree.
Verticals == {n \in Subtree(root) : n.kind = "Vertical"}

\* C5: a solve reports Overflow(MainAxis) for a vertical container exactly
\* when the heights of its children, plus the spacing between consecutive
\* children, plus its top and bottom padding, exceed its own final height.
C5_VerticalMainAxisOverflow ==
    Solved =>
        \A n \in Verticals :
            Contains(returned, Overflow(n.id, "MainAxis"))
                <=> RGt(ContentHeight(n, FinalHeight), n.size.height)

\* A vertical container of two spaced children was reported, and one whose
\* content fills it exactly was not.
C5_Witness ==
    /\ Solved
    /\ \E n \in Verticals :
           /\ Len(n.children) = 2
           /\ n.spacing > 0
           /\ Contains(returned, Overflow(n.id, "MainAxis"))
    /\ \E n \in Verticals :
           /\ n.children # <<>>
           /\ ContentHeight(n, FinalHeight) = n.size.height
           /\ ~Contains(returned, Overflow(n.id, "MainAxis"))

\* C6: a solve reports Overflow(CrossAxis) for a vertical container exactly
\* when the width of its widest child plus its left and right padding
\* exceeds its own final width.
C6_VerticalCrossAxisOverflow ==
    Solved =>
        \A n \in Verticals :
            Contains(returned, Overflow(n.id, "CrossAxis"))
                <=> RGt(ContentWidth(n, FinalWidth), n.size.width)

\* The horizontal containers of the tree.
Horizontals == {n \in Subtree(root) : n.kind = "Horizontal"}

\* C7: a solve reports overflow for a horizontal container by the rule of
\* the vertical one with the axes swapped: Overflow(MainAxis) exactly when
\* the widths of its children plus spacing plus horizontal padding exceed its
\* width, Overflow(CrossAxis) exactly when the tallest child plus vertical
\* padding exceeds its height.
C7_HorizontalOverflow ==
    Solved =>
        \A n \in Horizontals :
            /\ Contains(returned, Overflow(n.id, "MainAxis"))
                   <=> RGt(ContentWidth(n, FinalWidth), n.size.width)
            /\ Contains(returned, Overflow(n.id, "CrossAxis"))
                   <=> RGt(ContentHeight(n, FinalHeight), n.size.height)

\* The final box of child c reaches beyond the final box of n on one of the
\* four edges.
ExtendsBeyond(n, c) ==
    \/ RLt(c.position.x, n.position.x)
    \/ RLt(c.position.y, n.position.y)
    \/ RGt(RAdd(c.position.x, c.size.width), RAdd(n.position.x, n.size.width))
    \/ RGt(RAdd(c.position.y, c.size.height), RAdd(n.position.y, n.size.height))

\* C8: a solve reports OutOfBounds for a child of a container (of any of the
\* three kinds) exactly when the child's final box extends beyond the
\* container's final box on any of the four edges.
C8_OutOfBoundsIffBeyond ==
    JustSolved =>
        \A n \in Holders :
            \A i \in 1..Len(n.children) :
                Contains(returned, OutOfBounds(n.id, n.children[i].id))
                    <=> ExtendsBeyond(n, n.children[i])

\* The containers that hold exactly one child.
SingleHolders == {n \in Holders : Len(n.children) = 1}

\* The alignment that governs the x axis, and the y axis, of a container:
\* a column's main axis is y, every other container's is x.
AlignmentX(n) == IF n.kind = "Vertical" THEN n.cross_axis_alignment
                 ELSE n.main_axis_alignment
AlignmentY(n) == IF n.kind = "Vertical" THEN n.main_axis_alignment
                 ELSE n.cross_axis_alignment

CenteredX(n) == RAdd(n.position.x, Half(RSub(n.size.width, n.children[1].size.width)))
CenteredY(n) == RAdd(n.position.y, Half(RSub(n.size.height, n.children[1].size.height)))

\* C9 (as stated): with Center alignment on an axis, a container holding a
\* single child places it at container_position + (container_size -
\* child_size) / 2 on that axis, for the three kinds of container, on both
\* axes and for any container position.
C9_CenterSingleChild ==
    JustSolved =>
        \A n \in SingleHolders :
            /\ AlignmentX(n) = "Center" => n.children[1].position.x = CenteredX(n)
            /\ AlignmentY(n) = "Center" => n.children[1].position.y = CenteredY(n)

\* C9 (amended): as stated, except that in a vertical container the child's y
\* is that value plus the container's scroll offset.
C9_CenterSingleChildScrolled ==
    JustSolved =>
        \A n \in SingleHolders :
            /\ AlignmentX(n) = "Center" => n.children[1].position.x = CenteredX(n)
            /\ AlignmentY(n) = "Center" =>
                   n.children[1].position.y =
                       IF n.kind = "Vertical" THEN RAdd(CenteredY(n), n.scroll_offset)
                       ELSE CenteredY(n)

\* A container away from the origin, larger than its single child, has
\* centred it on both axes; it is a scrolled vertical container.
C9_Witness ==
    /\ JustSolved
    /\ root \in SingleHolders
    /\ root.kind = "Vertical"
    /\ root.scroll_offset # Zero
    /\ root.position.x # Zero
    /\ root.main_axis_alignment = "Center"
    /\ root.cross_axis_alignment = "Center"
    /\ RGt(root.size.width, root.children[1].size.width)
    /\ RGt(root.children[1].position.x, root.position.x)

EndX(n) == RSub(RSub(RAdd(n.position.x, n.size.width), n.padding.right),
                n.children[1].size.width)
EndY(n) == RSub(RSub(RAdd(n.position.y, n.size.height), n.padding.bottom),
                n.children[1].size.height)

\* C10: with End alignment on an axis, a container holding a single child
\* places it on that axis at container far edge - trailing padding -
\* child_size: a BlockLayout on both axes, a horizontal and a vertical
\* container on their main axis.
C10_EndSingleChild ==
    JustSolved =>
        \A n \in SingleHolders :
            /\ (n.kind \in {"Block", "Horizontal"} /\ n.main_axis_alignment = "End")
                   => n.children[1].position.x = EndX(n)
            /\ (n.kind = "Block" /\ n.cross_axis_alignment = "End")
                   => n.children[1].position.y = EndY(n)
            /\ (n.kind = "Vertical" /\ n.main_axis_alignment = "End")
                   => n.children[1].position.y = EndY(n)

\* The last call made, when there is one.
LastCall == calls[Len(calls)]

NonNegative(p) ==
    /\ ~RLt(p.left, Zero) /\ ~RLt(p.right, Zero)
    /\ ~RLt(p.top, Zero) /\ ~RLt(p.bottom, Zero)

\* C11: a call of Padding::new, Padding::symmetric or Padding::all panics
\* exactly when one of the four resulting sides is negative and otherwise
\* yields a Padding holding exactly the given sides; the failure happens at
\* construction: no tree ever holds a negative side for a solve to meet.
C11_PaddingFailsFast ==
    /\ (calls # <<>> /\ LastCall.op = "padding") =>
           LET sides == GivenSides(LastCall.arg)
           IN  /\ status = "aborted" <=> (\E i \in 1..4 : sides[i] < 0)
               /\ status # "aborted" =>
                      root.padding = [left |-> R(sides[1]), right |-> R(sides[2]),
                                      top |-> R(sides[3]), bottom |-> R(sides[4])]
    /\ \A n \in Subtree(root) : NonNegative(n.padding)

\* A constructor given a negative bottom side alone has panicked before any
\* solve.
C11_Witness ==
    /\ status = "aborted"
    /\ calls # <<>>
    /\ LastCall.op = "padding"
    /\ LastCall.arg.ctor = "new"
    /\ LastCall.arg.args = <<3, 3, 3, -1>>
    /\ NumCalls("solve") = 0

\* The nodes of the subtree of n in pre-order: n, then the subtree of each
\* child in insertion order.
RECURSIVE Preorder(_)
Preorder(n) == <<n>> \o Concat([i \in 1..Len(n.children) |-> Preorder(n.children[i])])

\* The findings held by the nodes of a tree, node after node in pre-order.
FindingsInPreorder(n) ==
    LET nodes == Preorder(n)
    IN  Concat([i \in 1..Len(nodes) |-> nodes[i].errors])

\* C12: solve_layout returns every finding recorded in the tree during the
\* call, depth-first: a node's own findings before those of its descendants,
\* the children in insertion order, the whole subtree of a child before the
\* next child's; and it leaves no finding behind in the tree.
C12_FindingsDepthFirst ==
    JustSolved =>
        /\ returned = FindingsInPreorder(SolvePasses(previous, LastCall.arg))
        /\ \A n \in Subtree(root) : n.errors = <<>>

\* A solve returned findings of the root, then of its first child, then of
\* its second child.
C12_Witness ==
    /\ JustSolved
    /\ Len(root.children) >= 2
    /\ \E i, j, k \in 1..Len(returned) :
           /\ i < j /\ j < k
           /\ returned[i].id = root.id
           /\ returned[j].id = root.children[1].id
           /\ returned[k].id = root.children[2].id

\* C13: solve_layout does not overwrite a max width the root carries when it
\* is called: a root that fills the width and carries the max width m ends
\* with width m whatever the available size, and a root that carries none
\* ends with the available width.
C13_RootMaxWidthKept ==
    (JustSolved /\ root.intrinsic_size.width.tag = "Flex") =>
        IF previous.constraints.max_width.some
        THEN /\ root.size.width = previous.constraints.max_width.v
             /\ root.constraints.max_width = previous.constraints.max_width
        ELSE root.size.width = LastCall.arg.width

\* A root built with max width 10 was solved in a window 24 wide and is 10
\* wide; a root built with max width 30 was solved in a window 12 wide.
C13_Witness ==
    /\ JustSolved
    /\ Len(calls) = 1
    /\ root.intrinsic_size.width.tag = "Flex"
    /\ previous.constraints.max_width.some
    /\ \/ /\ previous.constraints.max_width.v = R(10)
          /\ LastCall.arg.width = R(24)
          /\ root.size.width = R(10)
          /\ root.kind = "Empty"
       \/ /\ previous.constraints.max_width.v = R(30)
          /\ LastCall.arg.width = R(12)
          /\ root.size.width = R(30)
          /\ root.kind = "Vertical"

\* C14: a BlockLayout that fills the width respects the max width its child
\* was built with: a child that fills the width and was built with max width
\* m, solved with an available width W >= m, ends with width m.
C14_ChildMaxWidthRespected ==
    (/\ JustSolved
     /\ Len(calls) = 1
     /\ root.kind = "Block"
     /\ root.intrinsic_size.width.tag = "Flex"
     /\ root.children[1].intrinsic_size.width.tag = "Flex"
     /\ previous.children[1].constraints.max_width.some
     /\ ~RLt(LastCall.arg.width, previous.children[1].constraints.max_width.v))
        => root.children[1].size.width = previous.children[1].constraints.max_width.v

\* The sum of the offsets of the scroll calls in a call history.
RECURSIVE ScrollTotal(_)
ScrollTotal(cs) ==
    IF cs = <<>> THEN Zero
    ELSE LET last == cs[Len(cs)]
         IN  RAdd(ScrollTotal(SubSeq(cs, 1, Len(cs) - 1)),
                  IF last.op = "scroll" THEN last.arg ELSE Zero)

\* The y the alignment alone gives child i in the last solve: the y of the
\* same tree solved with no scroll offset.
AlignedY(i) ==
    SolvePasses([previous EXCEPT !.scroll_offset = Zero], LastCall.arg)
        .children[i].position.y

\* C15: the scroll offset of a vertical container is persistent and additive:
\* after any interleaving of scroll calls and solves the stored offset is the
\* sum of the scrolled offsets, no solve changes it, and after every solve
\* each direct child's y is its alignment-computed y plus the stored offset.
C15_ScrollOffsetAdditive ==
    root.kind = "Vertical" =>
        /\ root.scroll_offset = ScrollTotal(calls)
        /\ JustSolved =>
              \A i \in DOMAIN root.children :
                  root.children[i].position.y = RAdd(AlignedY(i), root.scroll_offset)

C15_Witness ==
    /\ JustSolved
    /\ Len(calls) = 4
    /\ calls[1].op = "scroll" /\ calls[2].op = "solve" /\ calls[3].op = "scroll"
    /\ root.scroll_offset = R(6)
    /\ root.main_axis_alignment = "Start"
    /\ Len(root.children) = 2
    /\ root.children[1].position.y = RAdd(root.padding.top, R(6))
    /\ root.children[2].position.y = RAdd(AlignedY(2), R(6))

\* The paths to the nodes of the subtree of n in pre-order.
RECURSIVE PreorderPaths(_)
PreorderPaths(n) ==
    <<<<>>>> \o Concat([i \in 1..Len(n.children) |->
                 LET below == PreorderPaths(n.children[i])
                 IN  [j \in 1..Len(below) |-> <<i>> \o below[j]]])

\* C16: iter() yields every node of the subtree it is called on exactly once
\* and then ends, in pre-order: a node before its descendants, the children
\* in insertion order, the whole subtree of a child before the next child.
C16_IterIsPreorder ==
    walked.op = "iter" =>
        LET paths == PreorderPaths(NodeAt(root, walked.receiver))
        IN  /\ walked.items = paths
            /\ \A i, j \in 1..Len(walked.items) :
                   i /= j => walked.items[i] /= walked.items[j]
            /\ ~walked.then.some

C16_Witness ==
    /\ walked.op = "iter"
    /\ walked.receiver = <<>>
    /\ status = "solved"
    /\ walked.items = <<<<>>, <<1>>, <<1, 1>>, <<1, 2>>, <<2>>>>

\* C17: get(id) returns the first node, in pre-order, of the subtree it is
\* called on (that node included) whose id is id, and returns not-found
\* exactly when the subtree holds no node with that id.
C17_GetFirstInPreorder ==
    walked.op = "get" =>
        LET n == NodeAt(root, walked.receiver)
            paths == PreorderPaths(n)
            matches == {i \in 1..Len(paths) : NodeAt(n, paths[i]).id = walked.id}
        IN  IF matches = {} THEN ~walked.found.some
            ELSE /\ walked.found.some
                 /\ \E i \in matches :
                       /\ walked.found.v = paths[i]
                       /\ \A j \in matches : i <= j

C17_Witness ==
    /\ walked.op = "get"
    /\ walked.receiver = <<>>
    /\ walked.id = 3
    /\ Len(root.children) = 2
    /\ root.children[2].id = 3
    /\ walked.found = Some(<<1, 1>>)

\* C18: solve_layout runs to completion for every constructible tree and
\* every available size: whatever the shape of the tree, a multi-child
\* container with no children under Start, Center or End included, the
\* call returns.
C18_SolveRunsToCompletion ==
    (calls /= <<>> /\ LastCall.op = "solve") => status = "solved"

\* The place of a pass in the order min, max, size, position.
Rank(pass) ==
    CASE pass = "min" -> 1 [] pass = "max" -> 2 [] pass = "size" -> 3
      [] pass = "position" -> 4 [] OTHER -> 5

\* The nodes a pass enters, in order.
RECURSIVE NodesOf(_, _)
NodesOf(pass, t) ==
    IF t = <<>> THEN <<>>
    ELSE (IF Head(t).pass = pass THEN <<Head(t).node>> ELSE <<>>) \o NodesOf(pass, Tail(t))

\* The min constraints, the max constraints and the sizes of a tree.
RECURSIVE MinConstraintsOf(_)
MinConstraintsOf(n) ==
    [width |-> n.constraints.min_width, height |-> n.constraints.min_height,
     children |-> [i \in 1..Len(n.children) |-> MinConstraintsOf(n.children[i])]]

RECURSIVE MaxConstraintsOf(_)
MaxConstraintsOf(n) ==
    [width |-> n.constraints.max_width, height |-> n.constraints.max_height,
     children |-> [i \in 1..Len(n.children) |-> MaxConstraintsOf(n.children[i])]]

RECURSIVE SizesOf(_)
SizesOf(n) ==
    [size |-> n.size,
     children |-> [i \in 1..Len(n.children) |-> SizesOf(n.children[i])]]

\* The root as solve_layout hands it to the min pass.
Seeded ==
    SetMaxHeight(IF ~previous.constraints.max_width.some
                 THEN SetMaxWidth(previous, LastCall.arg.width) ELSE previous,
                 LastCall.arg.height)

FilledAfterMinPass ==
    {n \in Subtree(SolveMinConstraints(Seeded)) :
        n.kind \in MultiKinds /\ n.children /= <<>>}

\* C20: after solve_min_constraints a row or column with at least one child
\* has, on an axis that is not Fixed, the minimum given by its children's
\* minimums: along its main axis their sum plus spacing * (n - 1) plus its
\* padding on that axis, across it the largest of them plus its padding on
\* that axis; on an axis that is Fixed(v) its minimum is v.
C20_MinFromChildren ==
    JustSolved =>
        \A n \in FilledAfterMinPass :
            /\ n.constraints.min_width =
                   IF n.intrinsic_size.width.tag = "Fixed" THEN n.intrinsic_size.width.v
                   ELSE ContentWidth(n, MinWidth)
            /\ n.constraints.min_height =
                   IF n.intrinsic_size.height.tag = "Fixed" THEN n.intrinsic_size.height.v
                   ELSE ContentHeight(n, MinHeight)

C20_Witness ==
    /\ JustSolved
    /\ root.kind = "Vertical"
    /\ Len(root.children) = 2
    /\ root.spacing = 2
    /\ root.intrinsic_size.width.tag /= "Fixed"
    /\ root.intrinsic_size.height.tag /= "Fixed"
    /\ root.constraints.min_width = R(7)
    /\ root.constraints.min_height = R(15)

\* The rows and columns of the tree that hold no child.
EmptyMulti == {n \in Subtree(root) : n.kind \in MultiKinds /\ n.children = <<>>}

\* C21: a row or a column with no children that is Shrink on an axis still
\* applies its padding and never its spacing: after solve_layout its width
\* is left + right padding and its height is top + bottom padding, whatever
\* its spacing.
C21_EmptyShrinkIsPadding ==
    JustSolved =>
        \A n \in EmptyMulti :
            /\ n.intrinsic_size.width.tag = "Shrink" =>
                   n.size.width = HorizontalSum(n.padding)
            /\ n.intrinsic_size.height.tag = "Shrink" =>
                   n.size.height = VerticalSum(n.padding)

\* The share of a space that a child of n with main-axis sizing Flex(f) gets.
FlexShareOf(n, c, space) ==
    RMul(RDiv(R(ChildMainSizing(n, c).factor), R(TrueFlexTotal(n))), space)

\* C22: in a vertical container whose height sizing is Fixed or Flex, the
\* space shared among its Flex-height children is its max height minus its
\* top and bottom padding, minus spacing * (n - 1), minus the heights of its
\* Fixed children and the min heights of its Shrink children; each Flex
\* child's max height is factor / flex_total of that space.
C22_VerticalFlexSpace ==
    JustSolved =>
        \A n \in Verticals :
            n.intrinsic_size.height.tag \in {"Fixed", "Flex"} =>
                \A i \in 1..Len(n.children) :
                    LET c == n.children[i]
                        space == RSub(RSub(RSub(n.constraints.max_height,
                                                VerticalSum(n.padding)),
                                           Gaps(n)), FixedConsumption(n))
                    IN  c.intrinsic_size.height.tag = "Flex" =>
                            c.constraints.max_height = FlexShareOf(n, c, space)

\* C23: in a row or column whose main-axis sizing is Shrink, the space
\* shared among its Flex children is its own minimum minus its own main-axis
\* padding minus the Fixed children's sizes, the Shrink children's minimums
\* and the spacing between children; so a leaf that is Flex on that axis
\* gets main-axis size 0 there, whatever the padding.
C23_ShrinkFlexSpace ==
    JustSolved =>
        \A n \in Subtree(root) :
            (n.kind \in MultiKinds /\ MainSizing(n).tag = "Shrink") =>
                \A i \in 1..Len(n.children) :
                    LET c == n.children[i]
                        space == RSub(RSub(RSub(MainMin(n, n), MainPadding(n)),
                                           Gaps(n)), FixedConsumption(n))
                    IN  ChildMainSizing(n, c).tag = "Flex" =>
                            /\ MainMax(n, c) = FlexShareOf(n, c, space)
                            /\ c.kind = "Empty" => MainSize(n, c) = Zero

MainPosition(n, c) == IF n.kind = "Horizontal" THEN c.position.x ELSE c.position.y

\* Consecutive children of n follow one another along the main axis, the
\* spacing apart.
EvenlySpaced(n) ==
    \A i \in 1..(Len(n.children) - 1) :
        MainPosition(n, n.children[i + 1]) =
            RAdd(RAdd(MainPosition(n, n.children[i]), MainSize(n, n.children[i])),
                 R(n.spacing))

\* C24: in every row and column, under every main-axis alignment, after
\* positioning each child starts where the child before it ends plus the
\* spacing: the children keep their order, never overlap and are exactly the
\* spacing apart.
C24_ChildrenEvenlySpaced ==
    JustSolved => \A n \in Subtree(root) : n.kind \in MultiKinds => EvenlySpaced(n)

\* The children a container places by its alignment on the x axis and on
\* the y axis: every child on its cross axis, the first on its main axis.
PlacedOnX(n) ==
    IF n.kind = "Vertical" THEN DOMAIN n.children ELSE DOMAIN n.children \cap {1}
PlacedOnY(n) ==
    IF n.kind = "Horizontal" THEN DOMAIN n.children ELSE DOMAIN n.children \cap {1}

\* C25: with Start alignment on an axis a container places the child's near
\* edge at its own near edge plus its leading padding of that axis: left
\* padding on the x axis, top padding on the y axis (a scrolled column's
\* children moved by its scroll offset), for the child of a BlockLayout, for
\* the first child along a row or column, and for every child across it.
C25_StartUsesLeadingPadding ==
    JustSolved =>
        \A n \in Subtree(root) :
            /\ AlignmentX(n) = "Start" =>
                   \A i \in PlacedOnX(n) :
                       n.children[i].position.x = RAdd(n.position.x, n.padding.left)
            /\ AlignmentY(n) = "Start" =>
                   \A i \in PlacedOnY(n) :
                       n.children[i].position.y =
                           RAdd(RAdd(n.position.y, n.padding.top), n.scroll_offset)

\* C26: a child that is Flex on an axis, in a BlockLayout whose own sizing
\* on that axis is Flex or Fixed, ends after solve_layout with the block's
\* final size minus the block's padding on that axis, whatever holds the
\* block (nothing, another BlockLayout, a row or a column).
C26_BlockChildFillsBlock ==
    JustSolved =>
        \A n \in Subtree(root) :
            n.kind = "Block" =>
                LET c == n.children[1]
                IN  /\ (/\ n.intrinsic_size.width.tag \in {"Flex", "Fixed"}
                        /\ c.intrinsic_size.width.tag = "Flex")
                           => c.size.width = RSub(n.size.width, HorizontalSum(n.padding))
                    /\ (/\ n.intrinsic_size.height.tag \in {"Flex", "Fixed"}
                        /\ c.intrinsic_size.height.tag = "Flex")
                           => c.size.height = RSub(n.size.height, VerticalSum(n.padding))

\* A list of findings holds no Overflow twice.
OverflowsOnce(errs) ==
    \A i, j \in 1..Len(errs) :
        (i /= j /\ errs[i].type = "Overflow") => errs[i] /= errs[j]

\* C27: overflow findings are never duplicated: over any number of
\* consecutive solve_layout calls on a tree, no node's own list of findings
\* holds an Overflow twice, neither as the passes leave it nor after the
\* call, and the list each call returns holds each Overflow at most once.
C27_NoDuplicateOverflow ==
    JustSolved =>
        /\ OverflowsOnce(returned)
        /\ \A n \in Subtree(SolvePasses(previous, LastCall.arg)) : OverflowsOnce(n.errors)
        /\ \A n \in Subtree(root) : OverflowsOnce(n.errors)

C27_Witness ==
    /\ JustSolved
    /\ NumCalls("solve") = 2
    /\ Len(calls) = 2
    /\ root.kind = "Vertical"
    /\ Contains(returned, Overflow(root.id, "MainAxis"))
    /\ Contains(returned, Overflow(root.id, "CrossAxis"))
    /\ Contains(CollectErrors(SolvePasses(root, calls[1].arg)), Overflow(root.id, "MainAxis"))

\* The tree as it was built: the configuration of n with the sizes,
\* constraints, findings and child positions of a tree never solved.
RECURSIVE AsBuilt(_)
AsBuilt(n) ==
    [n EXCEPT !.size = [width |-> Zero, height |-> Zero],
              !.constraints = NewConstraints,
              !.errors = <<>>,
              !.children = [i \in 1..Len(n.children) |->
                               [AsBuilt(n.children[i]) EXCEPT !.position = Origin]]]

\* C28: the result of a solve_layout call depends only on the tree's
\* configuration and on the available size of that call: after any earlier
\* solves with other available sizes, every size and position is what a
\* freshly built tree of the same configuration gets from that call alone.
C28_SolveForgetsEarlierSolves ==
    JustSolved => Geometry(root) = Geometry(SolvePasses(AsBuilt(root), LastCall.arg))

\* The main-axis sizes of the children of n, summed.
ChildrenMainSum(n) == SumSeq([i \in 1..Len(n.children) |-> MainSize(n, n.children[i])])

\* n is Fixed or Flex on its main axis, has a child that is Flex on that
\* axis, and its Fixed and Shrink children, gaps and padding fit its size.
FlexFills(n) ==
    /\ n.kind \in MultiKinds
    /\ MainSizing(n).tag \in {"Fixed", "Flex"}
    /\ \E i \in 1..Len(n.children) : ChildMainSizing(n, n.children[i]).tag = "Flex"
    /\ ~RGt(RAdd(RAdd(FixedConsumption(n), Gaps(n)), MainPadding(n)), MainSize(n, n))

\* C29: Flex children absorb exactly the remaining space: in a multi-child
\* container, root or nested, that is Fixed or Flex on its main axis, has at
\* least one child Flex on that axis and whose Fixed and Shrink children,
\* gaps and padding fit, the children's main-axis sizes plus the gaps plus
\* the main-axis padding add up to the container's final main-axis size.
C29_FlexAbsorbsRemainder ==
    JustSolved =>
        \A n \in Subtree(root) :
            FlexFills(n) =>
                RAdd(RAdd(ChildrenMainSum(n), Gaps(n)), MainPadding(n)) = MainSize(n, n)

\* The divisor that solve_max_constraints computes for n.
DivisorOf(n) ==
    FlexTotal(n.children, IF n.kind = "Horizontal" THEN "width" ELSE "height")

\* C30: the flex factor total is computed without integer overflow: for
\* factors from 0 to 255, sums above 255 included, solve_layout does not
\* abort in the max pass, the divisor of the flex shares is the true sum of
\* the factors, and every Flex child gets factor / true sum of the space
\* its container shares.
C30_FlexTotalIsTrueSum ==
    /\ status /= "aborted"
    /\ JustSolved =>
           \A n \in Subtree(root) :
               n.kind \in MultiKinds =>
                   /\ DivisorOf(n) = TrueFlexTotal(n)
                   /\ \A i \in 1..Len(n.children) :
                          ChildMainSizing(n, n.children[i]).tag = "Flex" =>
                              MainMax(n, n.children[i]) =
                                  FlexShareOf(n, n.children[i], SpecifiedAvailable(n))

====
